---- MODULE Spec2Model ----
(***************************************************************************)
(* A model of src/S3-stat.py: one run of main(), which lists the account's *)
(* buckets, resolves each bucket's region (get_bucket_region) and size     *)
(* (get_bucket_size, one CloudWatch query per storage type through a       *)
(* per-region client cache), then sorts the records by size and rolls them *)
(* up per region.  The AWS services are the environment: every response    *)
(* and every exception they can produce is a nondeterministic input.       *)
(***************************************************************************)
EXTENDS Naturals, Sequences, FiniteSets

\* ------------------------------------------------------------------ bounds
MaxBuckets == 3      \* longest bucket listing list_buckets returns
MaxPoints == 2       \* most datapoints in one get_metric_statistics response
MaxTimestamp == 2    \* datapoint timestamps are 1..MaxTimestamp
MaxAverage == 2      \* datapoint averages are 1..MaxAverage

\* ----------------------------------------------------------- value domains
\* Python's None, as returned in response['LocationConstraint']: a value
\* distinct from every region name and from the empty string.
None == "None"

\* The exceptions the model tells apart, by the except clause that catches
\* them: botocore's NoCredentialsError and ClientError, and "Exception" for
\* any other exception (a connection error, a timeout, a KeyError, ...).
NoRaise == "none"
ExceptionKinds == {"NoCredentialsError", "ClientError", "Exception"}

\* What get_bucket_location can answer: a LocationConstraint or an exception.
LocationConstraints == {None, "", "eu-west-1"}
LookupOutcomes ==
    {[raises |-> NoRaise, LocationConstraint |-> c] : c \in LocationConstraints}
    \cup {[raises |-> k, LocationConstraint |-> None] : k \in {"ClientError", "Exception"}}

\* The storage types get_bucket_size probes, in the order of the list.
storage_types ==
    << "StandardStorage",
       "StandardIAStorage",
       "IntelligentTieringFAStorage",
       "IntelligentTieringIAStorage",
       "IntelligentTieringAAStorage",
       "IntelligentTieringAIAStorage",
       "IntelligentTieringDAAStorage",
       "OneZoneIAStorage",
       "ReducedRedundancyStorage",
       "GlacierInstantRetrievalStorage",
       "GlacierStorage",
       "DeepArchiveStorage",
       "GlacierStagingStorage",
       "GlacierObjectOverhead",
       "GlacierS3ObjectOverhead" >>

StorageTypes == {storage_types[k] : k \in 1..Len(storage_types)}

\* A datapoint of a get_metric_statistics response.
Datapoint == [Timestamp : 1..MaxTimestamp, Average : 1..MaxAverage]

\* CloudWatch returns at most one datapoint per period, in no given order:
\* the lists of at most MaxPoints datapoints with pairwise distinct timestamps.
DatapointLists ==
    {dps \in UNION {[1..n -> Datapoint] : n \in 0..MaxPoints} :
        \A a, b \in 1..Len(dps) : a # b => dps[a].Timestamp # dps[b].Timestamp}

\* What one get_metric_statistics call can answer.
MetricOutcomes ==
    {[raises |-> NoRaise, Datapoints |-> dps] : dps \in DatapointLists}
    \cup {[raises |-> k, Datapoints |-> <<>>] : k \in {"ClientError", "Exception"}}

NoData == [raises |-> NoRaise, Datapoints |-> <<>>]

\* The metric backend's answers for one bucket: storage type st answers o,
\* every other storage type answers rest.
Profile(st, o, rest) == [t \in StorageTypes |-> IF t = st THEN o ELSE rest]

\* Answers used for the buckets of a whole run: one storage type may hold
\* one datapoint or fail, the others hold no data.
RunMetrics ==
    {Profile(storage_types[1], o, NoData) :
        o \in {m \in MetricOutcomes : Len(m.Datapoints) <= 1 /\
                   \A k \in 1..Len(m.Datapoints) : m.Datapoints[k].Timestamp = 1}}

\* Answers used to probe one bucket: any answer for one storage type, and for
\* all the others the same answer: no data, one datapoint, or an exception.
ProbeMetrics ==
    {Profile(st, o, rest) :
        st \in StorageTypes,
        o \in MetricOutcomes,
        rest \in {m \in MetricOutcomes : Len(m.Datapoints) <= 1 /\
                   \A k \in 1..Len(m.Datapoints) :
                       m.Datapoints[k] = [Timestamp |-> 1, Average |-> MaxAverage]}}

\* ------------------------------------------------------------------- state
VARIABLES
    pc,                  \* where main() is
    buckets,             \* response['Buckets'] of list_buckets
    i,                   \* index of the bucket being processed (enumerate)
    bucket_region,       \* main's bucket_region
    size,                \* main's size
    cloudwatch_clients,  \* the per-region client cache (region -> handle)
    bucket_sizes,        \* the list of bucket records
    total_size,          \* main's running total
    region_stats,        \* region -> [count, size]
    error,               \* the exception main() caught and where it came from
    lookup,              \* history: the answer to the last get_bucket_location
    call,                \* history: the last get_bucket_size call
    collected,           \* history: bucket_sizes as it was before the sort
    created,             \* history: the regions clients were constructed for
    requested            \* history: the regions a client was requested for

vars == << pc, buckets, i, bucket_region, size, cloudwatch_clients, bucket_sizes,
           total_size, region_stats, error, lookup, call, collected, created,
           requested >>

NoLookup == [raises |-> "idle", LocationConstraint |-> None]
NoCall ==
    [made |-> FALSE, region |-> None, metrics |-> Profile(storage_types[1], NoData, NoData),
     construct |-> NoRaise, cached |-> FALSE, constructed |-> FALSE, client |-> 0,
     queries |-> <<>>, caught |-> FALSE, size |-> 0]
NoError == [kind |-> NoRaise, at |-> "nowhere"]

\* ------------------------------------------------------- get_bucket_region
\* get_bucket_region without the test for None.
get_bucket_region_unmapped(outcome) ==
    IF outcome.raises = NoRaise
    THEN [raises |-> NoRaise, value |-> outcome.LocationConstraint]
    ELSE IF outcome.raises = "ClientError"
    THEN [raises |-> NoRaise, value |-> "us-east-1"]
    ELSE [raises |-> outcome.raises, value |-> None]

\* get_bucket_region on the answer `outcome` of get_bucket_location: the
\* value it returns, or the exception that leaves it.
get_bucket_region(outcome) ==
    IF outcome.raises = NoRaise
    THEN [raises |-> NoRaise,
          value |-> IF outcome.LocationConstraint = None
                    THEN "us-east-1"
                    ELSE outcome.LocationConstraint]
    ELSE IF outcome.raises = "ClientError"
    THEN [raises |-> NoRaise, value |-> "us-east-1"]
    ELSE [raises |-> outcome.raises, value |-> None]

\* --------------------------------------------------------- get_bucket_size
\* AcquireClient without the membership test: every call constructs.
AcquireClientUncached(clients, region, construct, fresh) ==
    IF construct = NoRaise
    THEN [raises |-> NoRaise,
          clients |-> [r \in DOMAIN clients \cup {region} |->
                          IF r = region THEN fresh ELSE clients[r]],
          client |-> fresh, constructed |-> TRUE]
    ELSE [raises |-> construct, clients |-> clients, client |-> 0,
          constructed |-> FALSE]

\* The client for bucket_region: the cached one, or a new one (handle
\* `fresh`) that is cached; `construct` is what boto3.client does when called.
AcquireClient(clients, region, construct, fresh) ==
    IF region \in DOMAIN clients
    THEN [raises |-> NoRaise, clients |-> clients, client |-> clients[region],
          constructed |-> FALSE]
    ELSE IF construct = NoRaise
    THEN [raises |-> NoRaise,
          clients |-> [r \in DOMAIN clients \cup {region} |->
                          IF r = region THEN fresh ELSE clients[r]],
          client |-> fresh, constructed |-> TRUE]
    ELSE [raises |-> construct, clients |-> clients, client |-> 0,
          constructed |-> FALSE]

\* sorted(datapoints, key=Timestamp, reverse=True): a stable sort, so a
\* datapoint goes after every datapoint whose timestamp is not smaller.
RECURSIVE InsertByTimestamp(_, _, _)
InsertByTimestamp(sorted, dp, k) ==
    IF k > Len(sorted) THEN Append(sorted, dp)
    ELSE IF sorted[k].Timestamp < dp.Timestamp
    THEN SubSeq(sorted, 1, k - 1) \o <<dp>> \o SubSeq(sorted, k, Len(sorted))
    ELSE InsertByTimestamp(sorted, dp, k + 1)

RECURSIVE SortByTimestampDesc(_)
SortByTimestampDesc(dps) ==
    IF dps = <<>> THEN <<>>
    ELSE InsertByTimestamp(SortByTimestampDesc(SubSeq(dps, 1, Len(dps) - 1)),
                           dps[Len(dps)], 1)

\* Contribution without the sort: the first datapoint as returned.
ContributionUnsorted(datapoints) ==
    IF datapoints # <<>>
    THEN datapoints[1].Average
    ELSE 0

\* What one response adds to total_size: the Average of the first datapoint
\* of the sorted list, nothing for an empty list.
Contribution(datapoints) ==
    IF datapoints # <<>>
    THEN SortByTimestampDesc(datapoints)[1].Average
    ELSE 0

\* QueryLoop with break in place of continue: a ClientError ends the loop.
RECURSIVE QueryLoopBreak(_, _, _, _)
QueryLoopBreak(metrics, k, total, queries) ==
    IF k > Len(storage_types)
    THEN [raises |-> NoRaise, total |-> total, queries |-> queries]
    ELSE LET response == metrics[storage_types[k]]
             asked == Append(queries, storage_types[k])
         IN  IF response.raises = NoRaise
             THEN QueryLoopBreak(metrics, k + 1,
                                 total + Contribution(response.Datapoints), asked)
             ELSE IF response.raises = "ClientError"
             THEN [raises |-> NoRaise, total |-> total, queries |-> asked]
             ELSE [raises |-> response.raises, total |-> total, queries |-> asked]

\* The loop over storage_types from index k on, with total_size = total and
\* `queries` the storage types queried so far.  A ClientError goes on with
\* the next storage type; any other exception leaves the loop.
RECURSIVE QueryLoop(_, _, _, _)
QueryLoop(metrics, k, total, queries) ==
    IF k > Len(storage_types)
    THEN [raises |-> NoRaise, total |-> total, queries |-> queries]
    ELSE LET response == metrics[storage_types[k]]
             asked == Append(queries, storage_types[k])
         IN  IF response.raises = NoRaise
             THEN QueryLoop(metrics, k + 1,
                            total + Contribution(response.Datapoints), asked)
             ELSE IF response.raises = "ClientError"
             THEN QueryLoop(metrics, k + 1, total, asked)
             ELSE [raises |-> response.raises, total |-> total, queries |-> asked]

\* get_bucket_size: the returned size, the cache afterwards, and what the
\* call did.  `caught` says that the outer except clause was entered.
get_bucket_size(region, clients, construct, metrics, fresh) ==
    LET acq == AcquireClient(clients, region, construct, fresh)
        loop == QueryLoop(metrics, 1, 0, <<>>)
    IN  IF acq.raises # NoRaise
        THEN [size |-> 0, clients |-> acq.clients, caught |-> TRUE,
              queries |-> <<>>, client |-> 0, constructed |-> FALSE]
        ELSE IF loop.raises # NoRaise
        THEN [size |-> 0, clients |-> acq.clients, caught |-> TRUE,
              queries |-> loop.queries, client |-> acq.client,
              constructed |-> acq.constructed]
        ELSE [size |-> loop.total, clients |-> acq.clients, caught |-> FALSE,
              queries |-> loop.queries, client |-> acq.client,
              constructed |-> acq.constructed]

\* ---------------------------------------------------------- main: rollups
\* InsertBySize of an ascending sort that is then reversed: a record goes
\* before the records of its own size.
RECURSIVE InsertBySizeReversed(_, _, _)
InsertBySizeReversed(sorted, item, k) ==
    IF k > Len(sorted) THEN Append(sorted, item)
    ELSE IF sorted[k].size <= item.size
    THEN SubSeq(sorted, 1, k - 1) \o <<item>> \o SubSeq(sorted, k, Len(sorted))
    ELSE InsertBySizeReversed(sorted, item, k + 1)

\* bucket_sizes.sort(key=size, reverse=True): a stable sort, so a record goes
\* after every record whose size is not smaller.
RECURSIVE InsertBySize(_, _, _)
InsertBySize(sorted, item, k) ==
    IF k > Len(sorted) THEN Append(sorted, item)
    ELSE IF sorted[k].size < item.size
    THEN SubSeq(sorted, 1, k - 1) \o <<item>> \o SubSeq(sorted, k, Len(sorted))
    ELSE InsertBySize(sorted, item, k + 1)

RECURSIVE SortBySizeDesc(_)
SortBySizeDesc(items) ==
    IF items = <<>> THEN <<>>
    ELSE InsertBySize(SortBySizeDesc(SubSeq(items, 1, Len(items) - 1)),
                      items[Len(items)], 1)

\* AddToRegion with = in place of += for the size.
AddToRegionAssignSize(stats, item) ==
    LET known == item.region \in DOMAIN stats
        old == IF known THEN stats[item.region] ELSE [count |-> 0, size |-> 0]
    IN  [r \in DOMAIN stats \cup {item.region} |->
            IF r = item.region
            THEN [count |-> old.count + 1, size |-> item.size]
            ELSE stats[r]]

\* AddToRegion that starts the entry anew on every record.
AddToRegionReset(stats, item) ==
    [r \in DOMAIN stats \cup {item.region} |->
        IF r = item.region
        THEN [count |-> 1, size |-> item.size]
        ELSE stats[r]]

\* One pass of the loop that fills region_stats.
AddToRegion(stats, item) ==
    LET known == item.region \in DOMAIN stats
        old == IF known THEN stats[item.region] ELSE [count |-> 0, size |-> 0]
    IN  [r \in DOMAIN stats \cup {item.region} |->
            IF r = item.region
            THEN [count |-> old.count + 1, size |-> old.size + item.size]
            ELSE stats[r]]

RECURSIVE RegionStatsLoop(_, _, _)
RegionStatsLoop(stats, items, k) ==
    IF k > Len(items) THEN stats
    ELSE RegionStatsLoop(AddToRegion(stats, items[k]), items, k + 1)

\* ----------------------------------------------------------------- actions
Init ==
    /\ pc = "list_buckets"
    /\ buckets = <<>>
    /\ i = 0
    /\ bucket_region = None
    /\ size = 0
    /\ cloudwatch_clients = <<>>
    /\ bucket_sizes = <<>>
    /\ total_size = 0
    /\ region_stats = <<>>
    /\ error = NoError
    /\ lookup = NoLookup
    /\ call = NoCall
    /\ collected = <<>>
    /\ created = <<>>
    /\ requested = {}

\* s3_client.list_buckets(): a listing of n buckets, or an exception, which
\* one of main's except clauses catches.  An empty listing returns at once.
ListBuckets ==
    /\ pc = "list_buckets"
    /\ \/ \E n \in 0..MaxBuckets :
            /\ buckets' = [k \in 1..n |-> [Name |-> k, CreationDate |-> k]]
            /\ pc' = IF n = 0 THEN "no_buckets" ELSE "get_bucket_region"
            /\ i' = IF n = 0 THEN 0 ELSE 1
            /\ error' = error
       \/ \E kind \in ExceptionKinds :
            /\ error' = [kind |-> kind, at |-> "list_buckets"]
            /\ pc' = "error"
            /\ UNCHANGED << buckets, i >>
    /\ UNCHANGED << bucket_region, size, cloudwatch_clients, bucket_sizes, total_size,
                    region_stats, lookup, call, collected, created, requested >>

\* bucket_region = get_bucket_region(s3_client, bucket_name); an exception
\* that leaves get_bucket_region is caught by main's except clauses.
GetBucketRegion ==
    /\ pc = "get_bucket_region"
    /\ \E outcome \in LookupOutcomes :
          LET r == get_bucket_region(outcome)
          IN  /\ lookup' = outcome
              /\ IF r.raises = NoRaise
                 THEN /\ bucket_region' = r.value
                      /\ pc' = "get_bucket_size"
                      /\ error' = error
                 ELSE /\ bucket_region' = bucket_region
                      /\ pc' = "error"
                      /\ error' = [kind |-> r.raises, at |-> "get_bucket_region"]
    /\ UNCHANGED << buckets, i, size, cloudwatch_clients, bucket_sizes, total_size,
                    region_stats, call, collected, created, requested >>

\* size = get_bucket_size(...), the metric backend answering as one of Metrics.
GetBucketSize(Metrics) ==
    /\ pc = "get_bucket_size"
    /\ \E metrics \in Metrics, construct \in {NoRaise, "Exception"} :
          LET r == get_bucket_size(bucket_region, cloudwatch_clients, construct,
                                   metrics, Len(created) + 1)
          IN  /\ size' = r.size
              /\ cloudwatch_clients' = r.clients
              /\ created' = IF r.constructed THEN Append(created, bucket_region)
                            ELSE created
              /\ call' = [made |-> TRUE, region |-> bucket_region, metrics |-> metrics,
                          construct |-> IF bucket_region \in DOMAIN cloudwatch_clients
                                        THEN NoRaise ELSE construct,
                          cached |-> bucket_region \in DOMAIN cloudwatch_clients,
                          constructed |-> r.constructed, client |-> r.client,
                          queries |-> r.queries, caught |-> r.caught, size |-> r.size]
    /\ requested' = requested \cup {bucket_region}
    /\ pc' = "append"
    /\ UNCHANGED << buckets, i, bucket_region, bucket_sizes, total_size, region_stats,
                    error, lookup, collected >>

GetBucketSizeRun == GetBucketSize(RunMetrics)

GetBucketSizeProbe == GetBucketSize(ProbeMetrics)

\* bucket_sizes.append({...}); total_size += size; then the next bucket, or
\* the end of the loop.
AppendRecord ==
    /\ pc = "append"
    /\ bucket_sizes' = Append(bucket_sizes,
                              [name |-> buckets[i].Name, size |-> size,
                               region |-> bucket_region,
                               created |-> buckets[i].CreationDate])
    /\ total_size' = total_size + size
    /\ i' = i + 1
    /\ pc' = IF i = Len(buckets) THEN "sort" ELSE "get_bucket_region"
    /\ lookup' = NoLookup
    /\ call' = NoCall
    /\ UNCHANGED << buckets, bucket_region, size, cloudwatch_clients, region_stats,
                    error, collected, created, requested >>

\* bucket_sizes.sort(key=size, reverse=True)
SortRecords ==
    /\ pc = "sort"
    /\ collected' = bucket_sizes
    /\ bucket_sizes' = SortBySizeDesc(bucket_sizes)
    /\ pc' = "region_stats"
    /\ UNCHANGED << buckets, i, bucket_region, size, cloudwatch_clients, total_size,
                    region_stats, error, lookup, call, created, requested >>

\* region_stats = {}; for item in bucket_sizes: ...
RegionStats ==
    /\ pc = "region_stats"
    /\ region_stats' = RegionStatsLoop(<<>>, bucket_sizes, 1)
    /\ pc' = "report"
    /\ UNCHANGED << buckets, i, bucket_region, size, cloudwatch_clients, bucket_sizes,
                    total_size, error, lookup, call, collected, created, requested >>

\* The closing summary is printed and main() ends.
Report ==
    /\ pc = "report"
    /\ pc' = "done"
    /\ UNCHANGED << buckets, i, bucket_region, size, cloudwatch_clients, bucket_sizes,
                    total_size, region_stats, error, lookup, call, collected, created,
                    requested >>

Next ==
    \/ ListBuckets
    \/ GetBucketRegion
    \/ GetBucketSizeRun
    \/ AppendRecord
    \/ SortRecords
    \/ RegionStats
    \/ Report

Spec == Init /\ [][Next]_vars

\* A run over a listing of one bucket, the metric backend answering with any
\* of ProbeMetrics.
InitProbe ==
    /\ pc = "get_bucket_region"
    /\ buckets = << [Name |-> 1, CreationDate |-> 1] >>
    /\ i = 1
    /\ bucket_region = None
    /\ size = 0
    /\ cloudwatch_clients = <<>>
    /\ bucket_sizes = <<>>
    /\ total_size = 0
    /\ region_stats = <<>>
    /\ error = NoError
    /\ lookup = NoLookup
    /\ call = NoCall
    /\ collected = <<>>
    /\ created = <<>>
    /\ requested = {}

NextProbe ==
    \/ GetBucketRegion
    \/ GetBucketSizeProbe
    \/ AppendRecord
    \/ SortRecords
    \/ RegionStats
    \/ Report

SpecProbe == InitProbe /\ [][NextProbe]_vars

\* ------------------------------------------------------------ properties
\* The datapoint of a nonempty response with the latest timestamp.
LatestDatapoint(datapoints) ==
    CHOOSE k \in 1..Len(datapoints) :
        \A m \in 1..Len(datapoints) : datapoints[m].Timestamp <= datapoints[k].Timestamp

\* The value of the latest datapoint of a response, 0 for an empty or a
\* failed one.
LatestValue(response) ==
    IF response.raises = NoRaise /\ response.Datapoints # <<>>
    THEN response.Datapoints[LatestDatapoint(response.Datapoints)].Average
    ELSE 0

\* The answer the last call got for storage_types[k], if it asked.
Returned(k) ==
    IF \E q \in 1..Len(call.queries) : call.queries[q] = storage_types[k]
    THEN call.metrics[storage_types[k]]
    ELSE NoData

RECURSIVE SumOfLatest(_)
SumOfLatest(k) ==
    IF k = 0 THEN 0 ELSE SumOfLatest(k - 1) + LatestValue(Returned(k))

NoQueryRaised ==
    \A q \in 1..Len(call.queries) : call.metrics[call.queries[q]].raises = NoRaise

ClientAcquired == call.cached \/ call.construct = NoRaise

RECURSIVE SumOfSizes(_, _)
SumOfSizes(items, k) ==
    IF k = 0 THEN 0 ELSE SumOfSizes(items, k - 1) + items[k].size

RECURSIVE SumOverRegions(_, _)
SumOverRegions(stats, regions) ==
    IF regions = {} THEN 0
    ELSE LET r == CHOOSE x \in regions : TRUE
         IN  stats[r].size + SumOverRegions(stats, regions \ {r})

RECURSIVE CountOverRegions(_, _)
CountOverRegions(stats, regions) ==
    IF regions = {} THEN 0
    ELSE LET r == CHOOSE x \in regions : TRUE
         IN  stats[r].count + CountOverRegions(stats, regions \ {r})

Occurrences(seq, x) == Cardinality({k \in 1..Len(seq) : seq[k] = x})

PositionIn(items, item) == CHOOSE k \in 1..Len(items) : items[k] = item

RunEnded == pc \in {"done", "error", "no_buckets"}

\* C1: whatever the per-bucket calls do, a run that obtained its listing
\* ends only at the report, with exactly one record per listed bucket; only
\* a failure of the listing itself (the account-level failure) ends it early.
C1_EveryBucketReported ==
    /\ pc = "error" => error.at = "list_buckets"
    /\ pc = "done" =>
          /\ Len(bucket_sizes) = Len(buckets)
          /\ \A b \in 1..Len(buckets) :
                Cardinality({k \in 1..Len(bucket_sizes) :
                                bucket_sizes[k].name = buckets[b].Name}) = 1

\* C2: when no metric query raised, get_bucket_size returned the sum over
\* the storage types of the value of the latest datapoint returned for each,
\* an empty response counting zero; with no datapoints at all it returned 0
\* without entering the outer except clause.
C2_SizeIsSumOfLatest ==
    call.made /\ NoQueryRaised =>
        /\ call.size = SumOfLatest(Len(storage_types))
        /\ size = call.size
        /\ (ClientAcquired /\ \A t \in StorageTypes : call.metrics[t] = NoData)
              => call.size = 0 /\ ~call.caught

C2_Witness ==
    /\ call.made /\ NoQueryRaised /\ ClientAcquired
    /\ \E t, u \in StorageTypes :
          /\ t # u
          /\ Len(call.metrics[t].Datapoints) = 2
          /\ call.metrics[t].Datapoints[1].Timestamp < call.metrics[t].Datapoints[2].Timestamp
          /\ call.metrics[t].Datapoints[1].Average # call.metrics[t].Datapoints[2].Average
          /\ call.metrics[u].Datapoints # <<>>

\* C3: at the end of main() total_size equals the sum of the sizes of the
\* bucket records and the sum of the sizes of the region rollups.
C3_GrandTotal ==
    pc \in {"report", "done"} =>
        /\ total_size = SumOfSizes(bucket_sizes, Len(bucket_sizes))
        /\ total_size = SumOverRegions(region_stats, DOMAIN region_stats)

C3_Witness ==
    /\ pc = "done"
    /\ Cardinality(DOMAIN region_stats) >= 2
    /\ \E r \in DOMAIN region_stats : region_stats[r].count >= 2 /\ region_stats[r].size >= 2
    /\ total_size >= 3

\* C4: with a client at hand, a query that fails for one storage type adds
\* nothing, the loop goes on over all storage types, and the returned size
\* is the sum of what the other storage types contributed; the outer except
\* clause is not entered.
C4_QueryFailureSwallowed ==
    call.made /\ ClientAcquired =>
        /\ call.queries = storage_types
        /\ call.size = SumOfLatest(Len(storage_types))
        /\ ~call.caught

\* C5: whatever error the location lookup raises, get_bucket_region returns
\* 'us-east-1' and main() goes on with that region.
C5_LookupErrorFallsBack ==
    lookup.raises \in ExceptionKinds =>
        /\ pc # "error"
        /\ bucket_region = "us-east-1"

\* C6 as stated: a null or empty location constraint gives 'us-east-1', and
\* no returned region and no bucket record's region is null or empty.
C6_NullOrEmptyIsDefault ==
    /\ (lookup.raises = NoRaise /\ lookup.LocationConstraint \in {None, ""})
          => bucket_region = "us-east-1"
    /\ lookup.raises \in {NoRaise, "ClientError"} => bucket_region \notin {None, ""}
    /\ \A k \in 1..Len(bucket_sizes) : bucket_sizes[k].region \notin {None, ""}

\* C6 as amended: a null location constraint gives 'us-east-1', and no
\* returned region and no bucket record's region is null.
C6_NullIsDefault ==
    /\ (lookup.raises = NoRaise /\ lookup.LocationConstraint = None)
          => bucket_region = "us-east-1"
    /\ lookup.raises \in {NoRaise, "ClientError"} => bucket_region # None
    /\ \A k \in 1..Len(bucket_sizes) : bucket_sizes[k].region # None

C6_Witness ==
    /\ lookup.raises = NoRaise /\ lookup.LocationConstraint = None
    /\ pc = "append"
    /\ bucket_region = "us-east-1"

\* C7: the client cache constructs at most one client per region, only in a
\* call that requests a region with no cached client; a request for a cached
\* region uses the cached handle; no entry is ever removed or replaced.
C7_OneClientPerRegion ==
    [][ /\ \A r \in DOMAIN cloudwatch_clients :
              /\ r \in DOMAIN cloudwatch_clients'
              /\ cloudwatch_clients'[r] = cloudwatch_clients[r]
        /\ \A k \in 1..Len(created') : Occurrences(created', created'[k]) = 1
        /\ DOMAIN cloudwatch_clients' \subseteq requested'
        /\ created' # created =>
              /\ pc = "get_bucket_size"
              /\ bucket_region \notin DOMAIN cloudwatch_clients
              /\ created' = Append(created, bucket_region)
        /\ (pc = "get_bucket_size" /\ bucket_region \in DOMAIN cloudwatch_clients) =>
              /\ call'.client = cloudwatch_clients[bucket_region]
              /\ created' = created
      ]_vars

C7_Witness ==
    /\ call.made /\ call.cached
    /\ call.client = cloudwatch_clients[bucket_region]
    /\ Len(created) >= 2
    /\ Len(bucket_sizes) >= 2

\* C8 as stated: the probe set has exactly 14 storage types, and a call in
\* which the outer except clause was not entered issued one query per
\* storage type, in list order: 14 queries.
C8_FourteenQueries ==
    call.made /\ ~call.caught =>
        /\ Len(storage_types) = 14
        /\ call.queries = storage_types
        /\ Len(call.queries) = 14

\* C8 as amended: the probe set has exactly 15 distinct storage types, and a
\* call in which the outer except clause was not entered issued one query
\* per storage type, in list order: 15 queries.
C8_FifteenQueries ==
    /\ Len(storage_types) = 15
    /\ Cardinality(StorageTypes) = 15
    /\ call.made /\ ~call.caught =>
          /\ call.queries = storage_types
          /\ Len(call.queries) = 15

C8_Witness ==
    /\ call.made /\ ~call.caught
    /\ \E t \in StorageTypes : call.metrics[t].raises = "ClientError"
    /\ \E t \in StorageTypes : call.metrics[t].Datapoints # <<>>

\* C9: after the sort the bucket records are a permutation of the collected
\* records, in descending order of size, records of equal size in the order
\* in which they were collected.
C9_StableDescendingSort ==
    pc \in {"region_stats", "report", "done"} =>
        /\ Len(bucket_sizes) = Len(collected)
        /\ \A k \in 1..Len(collected) : Occurrences(bucket_sizes, collected[k]) = 1
        /\ \A a, b \in 1..Len(bucket_sizes) :
              a < b =>
                 /\ bucket_sizes[a].size >= bucket_sizes[b].size
                 /\ bucket_sizes[a].size = bucket_sizes[b].size =>
                       PositionIn(collected, bucket_sizes[a])
                          < PositionIn(collected, bucket_sizes[b])

C9_Witness ==
    /\ pc = "done"
    /\ bucket_sizes # collected
    /\ \E a, b \in 1..Len(bucket_sizes) :
          a < b /\ bucket_sizes[a].size = bucket_sizes[b].size

\* C10: region_stats has one entry per region of the bucket records, each
\* entry's count is the number of records of that region, and the counts add
\* up to the number of records.
C10_RegionCounts ==
    pc \in {"report", "done"} =>
        /\ DOMAIN region_stats = {bucket_sizes[k].region : k \in 1..Len(bucket_sizes)}
        /\ \A r \in DOMAIN region_stats :
              region_stats[r].count =
                 Cardinality({k \in 1..Len(bucket_sizes) : bucket_sizes[k].region = r})
        /\ CountOverRegions(region_stats, DOMAIN region_stats) = Len(bucket_sizes)

C10_Witness ==
    /\ pc = "done"
    /\ Cardinality(DOMAIN region_stats) >= 2
    /\ \E r \in DOMAIN region_stats : region_stats[r].count >= 2

====
